---- MODULE Spec2Model ----
(***************************************************************************)
(* Model of gotham's middleware pipeline (src/middleware/pipeline.rs):     *)
(* the PipelineBuilder cons-list, Pipeline::call, the NewPipelineInstance  *)
(* recursion that creates the per-request Middleware, and the              *)
(* PipelineInstance recursion that nests them into one function.           *)
(***************************************************************************)
EXTENDS Integers, Sequences, FiniteSets, TLC

\* Longest pipeline built from arbitrary NewMiddleware values.
MaxMiddleware == 3
\* Number of dispatches (calls of Pipeline::call) that may be in flight.
MaxReq == 2

Req == 1..MaxReq

VARIABLES
    t,          \* PipelineBuilder.t: the cons-list, most recently added first
    built,      \* FALSE: a PipelineBuilder; TRUE: a Pipeline (after build)
    appended,   \* history: the arguments of add, in call order
    pc,         \* per dispatch: "idle", "chain", "unwind", "done"
    state,      \* per dispatch: the State moving down the chain
    request,    \* per dispatch: the Request moving down the chain
    handler,    \* per dispatch: the Handler created by new_handler
    f,          \* per dispatch: the function still to be invoked
    stack,      \* per dispatch: Middleware whose chain has not returned yet
    result,     \* per dispatch: the outcome of the HandlerFuture
    trace       \* per dispatch: history of the calls made, in order

vars == <<t, built, appended, pc, state, request, handler, f, stack, result, trace>>

-----------------------------------------------------------------------------
(* NewMiddleware / Middleware values *)

\* tests::Number, tests::Addition, tests::Multiplication
Number(v) == [kind |-> "Number", value |-> v]
Addition(v) == [kind |-> "Addition", value |-> v]
Multiplication(v) == [kind |-> "Multiplication", value |-> v]
\* A Middleware that never invokes its chain and answers itself.
Halt == [kind |-> "Halt", value |-> 0]
\* A Middleware that invokes its chain and marks the Response it gets back.
Wrap == [kind |-> "Wrap", value |-> 0]
\* A NewMiddleware whose new_middleware returns Err.
Broken == [kind |-> "Broken", value |-> 0]

\* The NewMiddleware values add is called with, for pipelines up to
\* MaxMiddleware; Multiplication comes with the pipeline of OrderingTest.
NewMiddlewares == {Addition(1), Halt, Wrap, Broken}

\* The pipeline of tests::pipeline_ordering_test, in add order.
OrderingTest ==
    <<Number(0), Addition(1), Multiplication(2), Addition(1),
      Multiplication(2), Addition(2), Multiplication(3)>>

\* The n-th value given to add, named by its ordinal.
Named(nm, n) == [kind |-> nm.kind, value |-> nm.value, id |-> n]

\* The NewHandler values Pipeline::call is called with: one that creates
\* tests::handler and one whose new_handler returns Err.
NewHandlers == {"handler", "broken"}

\* How the future of the Handler ends: with a Response or with an error.
Outcomes == {"response", "error"}

\* The State given to dispatch r holds a Number seeded per request.
Seed(r) == r - 1
NewState(r) == [number |-> Seed(r)]

NoHandler == "none"
NoError == [source |-> "none", at |-> 0]
NoResponse == [status |-> "none", body |-> 0, via |-> <<>>]
Pending == [ok |-> FALSE, state |-> [number |-> 0], resp |-> NoResponse, err |-> NoError]

Ok(s, resp) == [ok |-> TRUE, state |-> s, resp |-> resp, err |-> NoError]
Err(s, e) == [ok |-> FALSE, state |-> s, resp |-> NoResponse, err |-> e]

Event(ev, at, s, q) == [ev |-> ev, at |-> at, state |-> s, req |-> q]

-----------------------------------------------------------------------------
(* The external collaborators: NewHandler, Handler, NewMiddleware, Middleware *)

\* NewHandler::new_handler
new_handler(nh) ==
    IF nh = "broken"
    THEN [ok |-> FALSE, handler |-> NoHandler, err |-> [source |-> "new_handler", at |-> 0]]
    ELSE [ok |-> TRUE, handler |-> nh, err |-> NoError]

\* Handler::handle: tests::handler writes the Number into the body.
handle(h, s, outcome) ==
    IF outcome = "error"
    THEN Err(s, [source |-> "handler", at |-> 0])
    ELSE Ok(s, [status |-> "Ok", body |-> s.number, via |-> <<>>])

\* NewMiddleware::new_middleware: a fresh Middleware owned by dispatch r.
new_middleware(nm, r) ==
    IF nm.kind = "Broken"
    THEN [ok |-> FALSE, m |-> nm, err |-> [source |-> "new_middleware", at |-> nm.id]]
    ELSE [ok |-> TRUE,
          m |-> [kind |-> nm.kind, value |-> nm.value, id |-> nm.id, dispatch |-> r],
          err |-> NoError]

\* What Middleware::call does to the State before it invokes (or not) its chain.
before(m, s) ==
    CASE m.kind = "Number" -> [s EXCEPT !.number = m.value]
      [] m.kind = "Addition" -> [s EXCEPT !.number = s.number + m.value]
      [] m.kind = "Multiplication" -> [s EXCEPT !.number = s.number * m.value]
      [] OTHER -> s

\* Whether Middleware::call invokes its chain.
delegates(m) == m.kind # "Halt"

\* The result a Middleware that does not invoke its chain produces.
halted(m, s) == Ok(s, [status |-> "Halted", body |-> m.id, via |-> <<>>])

\* What Middleware::call does to the result of its chain.
after(m, res) ==
    IF m.kind = "Wrap" /\ res.ok
    THEN [res EXCEPT !.resp.via = Append(res.resp.via, m.id)]
    ELSE res

-----------------------------------------------------------------------------
(* pipeline.rs *)

\* A new_pipeline that starts with a default NewMiddleware in the list.
new_pipeline_with_default == <<[kind |-> "Number", value |-> 0, id |-> 0]>>

\* new_pipeline
new_pipeline == <<>>

\* A builder that puts the NewMiddleware at the end of the list instead.
cons_at_end(m, tt) == Append(tt, m)

\* PipelineBuilder::add: (m, self.t)
cons(m, tt) == <<m>> \o tt

\* A recursion that leaves out the Middleware a failing NewMiddleware did not
\* create, and goes on with the others.
RECURSIVE new_pipeline_instance_lenient(_, _, _, _)
new_pipeline_instance_lenient(tt, r, s, q) ==
    IF tt = <<>>
    THEN [ok |-> TRUE, p |-> <<>>, err |-> NoError, log |-> <<>>]
    ELSE LET head == new_middleware(Head(tt), r)
             rest == new_pipeline_instance_lenient(Tail(tt), r, s, q)
         IN  [ok |-> TRUE,
              p |-> IF head.ok THEN <<head.m>> \o rest.p ELSE rest.p,
              err |-> NoError,
              log |-> <<Event("new_middleware", Head(tt).id, s, q)>> \o rest.log]

\* A recursion that creates the tail of the list before its head.
RECURSIVE new_pipeline_instance_tail_first(_, _, _, _)
new_pipeline_instance_tail_first(tt, r, s, q) ==
    IF tt = <<>>
    THEN [ok |-> TRUE, p |-> <<>>, err |-> NoError, log |-> <<>>]
    ELSE LET rest == new_pipeline_instance_tail_first(Tail(tt), r, s, q)
             head == new_middleware(Head(tt), r)
             ev == Event("new_middleware", Head(tt).id, s, q)
         IN  IF ~rest.ok
             THEN rest
             ELSE IF ~head.ok
                  THEN [ok |-> FALSE, p |-> <<>>, err |-> head.err,
                        log |-> rest.log \o <<ev>>]
                  ELSE [ok |-> TRUE, p |-> <<head.m>> \o rest.p, err |-> NoError,
                        log |-> rest.log \o <<ev>>]

\* A recursion that goes through the whole list whatever fails, and reports
\* the last failure.
RECURSIVE new_pipeline_instance_collect(_, _, _, _)
new_pipeline_instance_collect(tt, r, s, q) ==
    IF tt = <<>>
    THEN [ok |-> TRUE, p |-> <<>>, err |-> NoError, log |-> <<>>]
    ELSE LET head == new_middleware(Head(tt), r)
             rest == new_pipeline_instance_collect(Tail(tt), r, s, q)
             ev == Event("new_middleware", Head(tt).id, s, q)
         IN  IF head.ok /\ rest.ok
             THEN [ok |-> TRUE, p |-> <<head.m>> \o rest.p, err |-> NoError,
                   log |-> <<ev>> \o rest.log]
             ELSE [ok |-> FALSE, p |-> <<>>,
                   err |-> IF rest.ok THEN head.err ELSE rest.err,
                   log |-> <<ev>> \o rest.log]

\* A new_pipeline_instance that returns the Middleware in the order their
\* NewMiddleware were added, first added at the head.
RECURSIVE new_pipeline_instance_append_order(_, _, _, _)
new_pipeline_instance_append_order(tt, r, s, q) ==
    IF tt = <<>>
    THEN [ok |-> TRUE, p |-> <<>>, err |-> NoError, log |-> <<>>]
    ELSE LET nm == Head(tt)
             tail == Tail(tt)
             head == new_middleware(nm, r)
             rest == new_pipeline_instance_append_order(tail, r, s, q)
             ev == Event("new_middleware", nm.id, s, q)
         IN  IF ~head.ok
             THEN [ok |-> FALSE, p |-> <<>>, err |-> head.err, log |-> <<ev>>]
             ELSE IF ~rest.ok
                  THEN [ok |-> FALSE, p |-> <<>>, err |-> rest.err, log |-> <<ev>> \o rest.log]
                  ELSE [ok |-> TRUE, p |-> rest.p \o <<head.m>>, err |-> NoError,
                        log |-> <<ev>> \o rest.log]

\* Op applied to the value of x, x being evaluated once.
Bind(x, Op(_)) == CHOOSE y \in {Op(v) : v \in {x}} : TRUE

\* NewPipelineInstance::new_pipeline_instance for (T, U) and ()
RECURSIVE new_pipeline_instance(_, _, _, _)
new_pipeline_instance(tt, r, s, q) ==
    IF tt = <<>>
    THEN [ok |-> TRUE, p |-> <<>>, err |-> NoError, log |-> <<>>]
    ELSE LET nm == Head(tt)
             tail == Tail(tt)
             head == new_middleware(nm, r)
             ev == Event("new_middleware", nm.id, s, q)
         IN  IF ~head.ok
             THEN [ok |-> FALSE, p |-> <<>>, err |-> head.err, log |-> <<ev>>]
             ELSE Bind(new_pipeline_instance(tail, r, s, q),
                       LAMBDA rest :
                          IF ~rest.ok
                          THEN [ok |-> FALSE, p |-> <<>>, err |-> rest.err,
                                log |-> <<ev>> \o rest.log]
                          ELSE [ok |-> TRUE, p |-> <<head.m>> \o rest.p, err |-> NoError,
                                log |-> <<ev>> \o rest.log])

\* A recursion that nests the Middleware the other way round: the head of the
\* list becomes the outermost function.
RECURSIVE call_recurse_head_outermost(_, _)
call_recurse_head_outermost(p, fn) ==
    IF p = <<>>
    THEN fn
    ELSE call_recurse_head_outermost(Tail(p), fn \o <<Head(p)>>)

\* PipelineInstance::call_recurse for (T, U) and (): the function handed to
\* the end of the list, as the Middleware it calls, outermost first; the
\* empty sequence is the function that invokes the Handler.
RECURSIVE call_recurse(_, _)
call_recurse(p, fn) ==
    IF p = <<>>
    THEN fn
    ELSE call_recurse(Tail(p), <<Head(p)>> \o fn)

\* PipelineInstance::call
instance_call(p) == call_recurse(p, <<>>)

\* A Pipeline::call that creates the Middleware before the Handler.
pipeline_call_middleware_first(tt, nh, r, s, q) ==
    LET i == new_pipeline_instance(tt, r, s, q)
        h == new_handler(nh)
        e0 == Event("new_handler", 0, s, q)
    IN  IF ~i.ok
        THEN [ok |-> FALSE, err |-> i.err, handler |-> NoHandler, fn |-> <<>>,
              log |-> i.log]
        ELSE IF ~h.ok
             THEN [ok |-> FALSE, err |-> h.err, handler |-> NoHandler, fn |-> <<>>,
                   log |-> i.log \o <<e0>>]
             ELSE [ok |-> TRUE, err |-> NoError, handler |-> h.handler,
                   fn |-> instance_call(i.p), log |-> i.log \o <<e0>>]

\* A Pipeline::call that, when a NewMiddleware fails, invokes the Handler it
\* has created with no Middleware around it.
pipeline_call_fallback(tt, nh, r, s, q) ==
    LET h == new_handler(nh)
        e0 == Event("new_handler", 0, s, q)
    IN  IF ~h.ok
        THEN [ok |-> FALSE, err |-> h.err, handler |-> NoHandler, fn |-> <<>>,
              log |-> <<e0>>]
        ELSE LET i == new_pipeline_instance(tt, r, s, q)
             IN  IF ~i.ok
                 THEN [ok |-> TRUE, err |-> NoError, handler |-> h.handler, fn |-> <<>>,
                       log |-> <<e0>> \o i.log]
                 ELSE [ok |-> TRUE, err |-> NoError, handler |-> h.handler,
                       fn |-> instance_call(i.p), log |-> <<e0>> \o i.log]

\* A Pipeline::call that keeps the Middleware created for the first dispatch
\* and hands them to every dispatch.
pipeline_call_shared(tt, nh, r, s, q) ==
    LET h == new_handler(nh)
        e0 == Event("new_handler", 0, s, q)
        i == new_pipeline_instance(tt, 1, s, q)
    IN  IF ~h.ok
        THEN [ok |-> FALSE, err |-> h.err, handler |-> NoHandler, fn |-> <<>>,
              log |-> <<e0>>]
        ELSE IF ~i.ok
             THEN [ok |-> FALSE, err |-> i.err, handler |-> h.handler, fn |-> <<>>,
                   log |-> <<e0>> \o i.log]
             ELSE [ok |-> TRUE, err |-> NoError, handler |-> h.handler,
                   fn |-> instance_call(i.p), log |-> <<e0>> \o i.log]

\* Pipeline::call, up to the invocation of the nested function: the Handler
\* and the Middleware of dispatch r are created for the State s and Request q.
pipeline_call(tt, nh, r, s, q) ==
    LET h == new_handler(nh)
        e0 == Event("new_handler", 0, s, q)
    IN  IF ~h.ok
        THEN [ok |-> FALSE, err |-> h.err, handler |-> NoHandler, fn |-> <<>>,
              log |-> <<e0>>]
        ELSE LET i == new_pipeline_instance(tt, r, s, q)
             IN  IF ~i.ok
                 THEN [ok |-> FALSE, err |-> i.err, handler |-> h.handler, fn |-> <<>>,
                       log |-> <<e0>> \o i.log]
                 ELSE [ok |-> TRUE, err |-> NoError, handler |-> h.handler,
                       fn |-> instance_call(i.p), log |-> <<e0>> \o i.log]

-----------------------------------------------------------------------------
Init ==
    /\ t = new_pipeline
    /\ built = FALSE
    /\ appended = <<>>
    /\ pc = [r \in Req |-> "idle"]
    /\ state = [r \in Req |-> NewState(r)]
    /\ request = [r \in Req |-> r]
    /\ handler = [r \in Req |-> NoHandler]
    /\ f = [r \in Req |-> <<>>]
    /\ stack = [r \in Req |-> <<>>]
    /\ result = [r \in Req |-> Pending]
    /\ trace = [r \in Req |-> <<>>]

\* The pipelines considered: every one of up to MaxMiddleware values of
\* NewMiddlewares, and the one of pipeline_ordering_test.
MayAdd(nm) ==
    \/ /\ Len(appended) < MaxMiddleware
       /\ nm \in NewMiddlewares
    \/ /\ Len(appended) < Len(OrderingTest)
       /\ nm = OrderingTest[Len(appended) + 1]
       /\ appended = [i \in 1..Len(appended) |-> Named(OrderingTest[i], i)]

\* PipelineBuilder::add
add(nm) ==
    /\ ~built
    /\ MayAdd(nm)
    /\ t' = cons(Named(nm, Len(appended) + 1), t)
    /\ appended' = Append(appended, Named(nm, Len(appended) + 1))
    /\ UNCHANGED <<built, pc, state, request, handler, f, stack, result, trace>>

\* PipelineBuilder::build
build ==
    /\ ~built
    /\ built' = TRUE
    /\ UNCHANGED <<t, appended, pc, state, request, handler, f, stack, result, trace>>

\* A Pipeline::call that holds a lock on the Pipeline for the whole dispatch:
\* it waits until no other dispatch is in flight.
call_exclusive(r, nh) ==
    /\ built
    /\ pc[r] = "idle"
    /\ \A r2 \in Req \ {r} : pc[r2] \in {"idle", "done"}
    /\ LET c == pipeline_call(t, nh, r, state[r], request[r])
       IN  /\ trace' = [trace EXCEPT ![r] = c.log]
           /\ handler' = [handler EXCEPT ![r] = c.handler]
           /\ f' = [f EXCEPT ![r] = c.fn]
           /\ IF c.ok
              THEN /\ pc' = [pc EXCEPT ![r] = "chain"]
                   /\ UNCHANGED result
              ELSE /\ pc' = [pc EXCEPT ![r] = "done"]
                   /\ result' = [result EXCEPT ![r] = Err(state[r], c.err)]
    /\ UNCHANGED <<t, built, appended, state, request, stack>>

\* A Pipeline::call that takes the NewMiddleware it used off the list.
call_consuming(r, nh) ==
    /\ built
    /\ pc[r] = "idle"
    /\ LET c == pipeline_call(t, nh, r, state[r], request[r])
       IN  /\ trace' = [trace EXCEPT ![r] = c.log]
           /\ handler' = [handler EXCEPT ![r] = c.handler]
           /\ f' = [f EXCEPT ![r] = c.fn]
           /\ t' = IF t = <<>> THEN t ELSE Tail(t)
           /\ IF c.ok
              THEN /\ pc' = [pc EXCEPT ![r] = "chain"]
                   /\ UNCHANGED result
              ELSE /\ pc' = [pc EXCEPT ![r] = "done"]
                   /\ result' = [result EXCEPT ![r] = Err(state[r], c.err)]
    /\ UNCHANGED <<built, appended, state, request, stack>>

\* Pipeline::call: the dispatch of request r starts
call(r, nh) ==
    /\ built
    /\ pc[r] = "idle"
    /\ LET c == pipeline_call(t, nh, r, state[r], request[r])
       IN  /\ trace' = [trace EXCEPT ![r] = c.log]
           /\ handler' = [handler EXCEPT ![r] = c.handler]
           /\ f' = [f EXCEPT ![r] = c.fn]
           /\ IF c.ok
              THEN /\ pc' = [pc EXCEPT ![r] = "chain"]
                   /\ UNCHANGED result
              ELSE /\ pc' = [pc EXCEPT ![r] = "done"]
                   /\ result' = [result EXCEPT ![r] = Err(state[r], c.err)]
    /\ UNCHANGED <<t, built, appended, state, request, stack>>

\* A chain whose Middleware all work on one State, that of the first dispatch.
MiddlewareCall_shared_state(r) ==
    /\ pc[r] = "chain"
    /\ f[r] # <<>>
    /\ LET m == Head(f[r])
           s == before(m, state[1])
       IN  /\ trace' = [trace EXCEPT ![r] = Append(@, Event("before", m.id, state[1], request[r]))]
           /\ state' = [x \in Req |-> s]
           /\ stack' = [stack EXCEPT ![r] = <<m>> \o @]
           /\ IF delegates(m)
              THEN /\ f' = [f EXCEPT ![r] = Tail(@)]
                   /\ UNCHANGED <<pc, result>>
              ELSE /\ f' = [f EXCEPT ![r] = <<>>]
                   /\ result' = [result EXCEPT ![r] = halted(m, s)]
                   /\ pc' = [pc EXCEPT ![r] = "unwind"]
    /\ UNCHANGED <<t, built, appended, request, handler>>

\* move |state, req| m.call(state, req, f)
MiddlewareCall(r) ==
    /\ pc[r] = "chain"
    /\ f[r] # <<>>
    /\ LET m == Head(f[r])
           s == before(m, state[r])
       IN  /\ trace' = [trace EXCEPT ![r] = Append(@, Event("before", m.id, state[r], request[r]))]
           /\ state' = [state EXCEPT ![r] = s]
           /\ IF delegates(m)
              THEN /\ f' = [f EXCEPT ![r] = Tail(@)]
                   /\ stack' = [stack EXCEPT ![r] = <<m>> \o @]
                   /\ UNCHANGED <<pc, result>>
              ELSE /\ f' = [f EXCEPT ![r] = <<>>]
                   /\ stack' = [stack EXCEPT ![r] = <<m>> \o @]
                   /\ result' = [result EXCEPT ![r] = halted(m, s)]
                   /\ pc' = [pc EXCEPT ![r] = "unwind"]
    /\ UNCHANGED <<t, built, appended, request, handler>>

\* A dispatcher that invokes the Handler again when its future fails.
HandlerHandle_retry(r, outcome) ==
    /\ pc[r] = "chain"
    /\ f[r] = <<>>
    /\ Len(trace[r]) < 2 * Len(t) + 4
    /\ trace' = [trace EXCEPT ![r] = Append(@, Event("handler", 0, state[r], request[r]))]
    /\ result' = [result EXCEPT ![r] = handle(handler[r], state[r], outcome)]
    /\ pc' = [pc EXCEPT ![r] = IF outcome = "error" THEN "chain" ELSE "unwind"]
    /\ UNCHANGED <<t, built, appended, state, request, handler, f, stack>>

\* move |state, req| handler.handle(state, req)
HandlerHandle(r, outcome) ==
    /\ pc[r] = "chain"
    /\ f[r] = <<>>
    /\ trace' = [trace EXCEPT ![r] = Append(@, Event("handler", 0, state[r], request[r]))]
    /\ result' = [result EXCEPT ![r] = handle(handler[r], state[r], outcome)]
    /\ pc' = [pc EXCEPT ![r] = "unwind"]
    /\ UNCHANGED <<t, built, appended, state, request, handler, f, stack>>

\* A resolution that hands the result past the next Middleware outside,
\* straight to the one after it.
Return_skip(r) ==
    /\ pc[r] = "unwind"
    /\ stack[r] # <<>>
    /\ LET m == Head(stack[r])
       IN  /\ trace' = [trace EXCEPT ![r] =
                          Append(@, Event("after", m.id, result[r].state, request[r]))]
           /\ result' = [result EXCEPT ![r] = after(m, @)]
           /\ stack' = [stack EXCEPT ![r] = IF Len(@) >= 2 THEN Tail(Tail(@)) ELSE Tail(@)]
    /\ UNCHANGED <<t, built, appended, pc, state, request, handler, f>>

\* The future a Middleware returned from call resolves.
Return(r) ==
    /\ pc[r] = "unwind"
    /\ stack[r] # <<>>
    /\ LET m == Head(stack[r])
       IN  /\ trace' = [trace EXCEPT ![r] =
                          Append(@, Event("after", m.id, result[r].state, request[r]))]
           /\ result' = [result EXCEPT ![r] = after(m, @)]
           /\ stack' = [stack EXCEPT ![r] = Tail(@)]
    /\ UNCHANGED <<t, built, appended, pc, state, request, handler, f>>

\* A dispatcher that catches the error of the chain and reports a failure of
\* its own in its place.
Complete_generic_error(r) ==
    /\ pc[r] = "unwind"
    /\ stack[r] = <<>>
    /\ pc' = [pc EXCEPT ![r] = "done"]
    /\ result' = [result EXCEPT ![r] =
                    IF @.ok THEN @ ELSE Err(@.state, [source |-> "dispatch", at |-> 0])]
    /\ UNCHANGED <<t, built, appended, state, request, handler, f, stack, trace>>

\* A dispatcher whose future resolves only with a response: a failure of the
\* chain is never handed to the caller.
Complete_only_ok(r) ==
    /\ pc[r] = "unwind"
    /\ stack[r] = <<>>
    /\ result[r].ok
    /\ pc' = [pc EXCEPT ![r] = "done"]
    /\ UNCHANGED <<t, built, appended, state, request, handler, f, stack, result, trace>>

\* The future Pipeline::call returned resolves.
Complete(r) ==
    /\ pc[r] = "unwind"
    /\ stack[r] = <<>>
    /\ pc' = [pc EXCEPT ![r] = "done"]
    /\ UNCHANGED <<t, built, appended, state, request, handler, f, stack, result, trace>>

Next ==
    \/ \E nm \in NewMiddlewares \cup {OrderingTest[i] : i \in 1..Len(OrderingTest)} : add(nm)
    \/ build
    \/ \E r \in Req, nh \in NewHandlers : call(r, nh)
    \/ \E r \in Req : MiddlewareCall(r)
    \/ \E r \in Req, outcome \in Outcomes : HandlerHandle(r, outcome)
    \/ \E r \in Req : Return(r)
    \/ \E r \in Req : Complete(r)

Spec == Init /\ [][Next]_vars

\* A step of the chain of dispatch r: a Middleware or the Handler runs, or a
\* future resolves.
Step(r) ==
    \/ MiddlewareCall(r)
    \/ \E outcome \in Outcomes : HandlerHandle(r, outcome)
    \/ Return(r)
    \/ Complete(r)

\* Any step of dispatch r, its start included.
Dispatch(r) ==
    \/ \E nh \in NewHandlers : call(r, nh)
    \/ Step(r)

\* Every Middleware and Handler that was invoked completes, and every future
\* that can resolve does.
FairSpec == Spec /\ \A r \in Req : WF_vars(Step(r))

-----------------------------------------------------------------------------
(* Vocabulary of the properties *)

N == Len(appended)

IsPrefix(a, b) == Len(a) <= Len(b) /\ \A i \in 1..Len(a) : a[i] = b[i]

\* What happened in dispatch r, as <<call, ordinal of the middleware>> pairs.
Tags(seq) == [i \in 1..Len(seq) |-> <<seq[i].ev, seq[i].at>>]
ChainEvents(r) == SelectSeq(trace[r], LAMBDA e : e.ev \in {"before", "handler", "after"})
FactoryEvents(r) == SelectSeq(trace[r], LAMBDA e : e.ev = "new_middleware")
HandlerEvents(r) == SelectSeq(trace[r], LAMBDA e : e.ev = "handler")

\* The Handler and every Middleware of dispatch r were created.
Constructed(r) == pc[r] \in {"chain", "unwind"} \/ (pc[r] = "done" /\ f[r] = <<>> /\ result[r].err.source \notin {"new_handler", "new_middleware"})
Finished(r) == pc[r] = "done" /\ Constructed(r)

AllDelegate == \A i \in 1..N : appended[i].kind \notin {"Halt", "Broken"}
AllArithmetic == \A i \in 1..N : appended[i].kind \in {"Number", "Addition", "Multiplication"}
HasHalt == \E i \in 1..N : appended[i].kind = "Halt"
HasBroken == \E i \in 1..N : appended[i].kind = "Broken"
FirstHalt == CHOOSE k \in 1..N : appended[k].kind = "Halt" /\ \A j \in 1..(k - 1) : appended[j].kind # "Halt"

\* before 1..n, handler, after n..1
NestedOrder(n) ==
    [i \in 1..(2 * n + 1) |->
        IF i <= n THEN <<"before", i>>
        ELSE IF i = n + 1 THEN <<"handler", 0>>
        ELSE <<"after", 2 * n + 2 - i>>]

\* before 1..k, after k..1
HaltOrder(k) ==
    [i \in 1..(2 * k) |-> IF i <= k THEN <<"before", i>> ELSE <<"after", 2 * k + 1 - i>>]

\* Add k, multiply by k, set to k
ApplyOp(nm, v) ==
    CASE nm.kind = "Number" -> nm.value
      [] nm.kind = "Addition" -> v + nm.value
      [] nm.kind = "Multiplication" -> v * nm.value
      [] OTHER -> v

RECURSIVE FoldLeft(_, _)
FoldLeft(ops, v) == IF ops = <<>> THEN v ELSE FoldLeft(Tail(ops), ApplyOp(Head(ops), v))

TestPipeline == [i \in 1..Len(OrderingTest) |-> Named(OrderingTest[i], i)]

\* The ordinals of the Wrap among the first k - 1 middleware, innermost first.
WrapsOutside(k) ==
    SelectSeq([i \in 1..(k - 1) |-> k - i], LAMBDA id : appended[id].kind = "Wrap")

-----------------------------------------------------------------------------
(* C1 *)
\* C1: when every middleware of the pipeline delegates to its chain, the calls
\* of a dispatch happen in the order M1-before, ..., Mn-before, handler,
\* Mn-after, ..., M1-after, M1 being the first middleware added: at every
\* moment the calls made so far are a prefix of that order, and a finished
\* dispatch has made all of them.
C1_NestedOrder ==
    \A r \in Req :
        AllDelegate =>
            /\ IsPrefix(Tags(ChainEvents(r)), NestedOrder(N))
            /\ Finished(r) => Tags(ChainEvents(r)) = NestedOrder(N)

C1_Witness ==
    \E r \in Req :
        /\ N >= 3
        /\ AllDelegate
        /\ Finished(r)
        /\ Tags(ChainEvents(r)) = NestedOrder(N)

(* C2 *)
\* C2: in a pipeline of Number, Addition and Multiplication middleware, the
\* number the handler reads (and writes into the body) is the left fold of
\* the operations, in the order they were added, over the number the State
\* was seeded with; for the pipeline of pipeline_ordering_test it is 24.
C2_LeftFold ==
    \A r \in Req :
        AllArithmetic =>
            /\ \A i \in 1..Len(HandlerEvents(r)) :
                  /\ HandlerEvents(r)[i].state.number = FoldLeft(appended, Seed(r))
                  /\ appended = TestPipeline => HandlerEvents(r)[i].state.number = 24
            /\ (Finished(r) /\ result[r].ok) =>
                  result[r].resp.body = FoldLeft(appended, Seed(r))

C2_Witness ==
    \E r \in Req :
        /\ appended = TestPipeline
        /\ Finished(r)
        /\ result[r].ok
        /\ result[r].resp.body = 24

(* C3 *)
\* C3: when middleware k is the first that does not invoke its chain, no
\* middleware after k and no handler is ever called in a dispatch; the calls
\* are M1-before, ..., Mk-before, then the returns Mk, M(k-1), ..., M1; and
\* the result of the dispatch is the one middleware k produced, marked by the
\* Wrap middleware outside it, innermost first.
C3_ShortCircuit ==
    \A r \in Req :
        (HasHalt /\ ~HasBroken) =>
            LET k == FirstHalt
            IN  /\ \A i \in 1..Len(trace[r]) :
                      /\ trace[r][i].ev # "handler"
                      /\ trace[r][i].ev \in {"before", "after"} => trace[r][i].at <= k
                /\ IsPrefix(Tags(ChainEvents(r)), HaltOrder(k))
                /\ Finished(r) =>
                      /\ Tags(ChainEvents(r)) = HaltOrder(k)
                      /\ result[r] =
                            Ok([number |-> FoldLeft(SubSeq(appended, 1, k), Seed(r))],
                               [status |-> "Halted", body |-> k, via |-> WrapsOutside(k)])

C3_Witness ==
    \E r \in Req :
        /\ N = 3
        /\ ~HasBroken
        /\ HasHalt
        /\ FirstHalt = 2
        /\ appended[1].kind = "Wrap"
        /\ Finished(r)
        /\ result[r].resp.via = <<1>>

(* C4 *)
\* C4: once the Handler was created, a dispatch through a pipeline one of
\* whose NewMiddleware fails has ended: no Middleware::call and no handler
\* was invoked, nothing is left to run, and the result is the failure of a
\* failing NewMiddleware together with the State given to Pipeline::call.
C4_NewMiddlewareFailure ==
    \A r \in Req :
        (HasBroken /\ pc[r] # "idle" /\ handler[r] # NoHandler) =>
            /\ pc[r] = "done"
            /\ ChainEvents(r) = <<>>
            /\ f[r] = <<>> /\ stack[r] = <<>>
            /\ result[r].err.source = "new_middleware"
            /\ result[r].err.at \in 1..N
            /\ appended[result[r].err.at].kind = "Broken"
            /\ result[r] = Err(NewState(r), [source |-> "new_middleware", at |-> result[r].err.at])
            /\ trace[r][Len(trace[r])] =
                  Event("new_middleware", result[r].err.at, NewState(r), r)

C4_Witness ==
    \E r \in Req :
        /\ N = 3
        /\ appended[2].kind = "Broken"
        /\ appended[1].kind = "Addition"
        /\ appended[3].kind = "Halt"
        /\ pc[r] = "done"
        /\ handler[r] # NoHandler
        /\ result[r] = Err(NewState(r), [source |-> "new_middleware", at |-> 2])

(* C5 *)
\* C5: the first call of every dispatch is new_handler and it is made once;
\* when it fails, it is the only call of the dispatch: no new_middleware, no
\* Middleware::call, no handler, and the result is the failure of new_handler
\* together with the State given to Pipeline::call.
C5_NewHandlerFirst ==
    \A r \in Req :
        /\ pc[r] # "idle" =>
              /\ Len(trace[r]) >= 1
              /\ trace[r][1] = Event("new_handler", 0, NewState(r), r)
              /\ \A i \in 2..Len(trace[r]) : trace[r][i].ev # "new_handler"
        /\ (pc[r] # "idle" /\ handler[r] = NoHandler) =>
              /\ pc[r] = "done"
              /\ Len(trace[r]) = 1
              /\ f[r] = <<>> /\ stack[r] = <<>>
              /\ result[r] = Err(NewState(r), [source |-> "new_handler", at |-> 0])

C5_Witness ==
    \E r \in Req :
        /\ N = 3
        /\ pc[r] = "done"
        /\ handler[r] = NoHandler
        /\ trace[r] = <<Event("new_handler", 0, NewState(r), r)>>
        /\ result[r].err.source = "new_handler"

(* C6 *)
\* C6: in a dispatch through a pipeline nothing was added to, no
\* new_middleware and no Middleware::call is made; the handler is invoked
\* with the State and the Request given to Pipeline::call, and the result of
\* the dispatch is the handler's: its Response for that State, or its error.
C6_EmptyPipeline ==
    \A r \in Req :
        (N = 0 /\ pc[r] # "idle") =>
            /\ \A i \in 1..Len(trace[r]) : trace[r][i].ev \in {"new_handler", "handler"}
            /\ (handler[r] # NoHandler /\ pc[r] \in {"unwind", "done"}) =>
                  /\ trace[r] = <<Event("new_handler", 0, NewState(r), r),
                                  Event("handler", 0, NewState(r), r)>>
                  /\ \/ result[r] = Ok(NewState(r),
                                       [status |-> "Ok", body |-> Seed(r), via |-> <<>>])
                     \/ result[r] = Err(NewState(r), [source |-> "handler", at |-> 0])

C6_Witness ==
    \E r \in Req :
        /\ N = 0
        /\ r = 2
        /\ pc[r] = "done"
        /\ result[r] = Ok(NewState(r), [status |-> "Ok", body |-> Seed(r), via |-> <<>>])

(* C7 *)
\* The call ev of middleware at (0: the handler) was made in dispatch r.
Called(r, ev, at) == \E i \in 1..Len(trace[r]) : trace[r][i].ev = ev /\ trace[r][i].at = at

\* No call of dispatch r was made twice.
NoRepeat(r) ==
    \A i, j \in 1..Len(trace[r]) :
        (i < j /\ trace[r][i].ev = trace[r][j].ev) => trace[r][i].at # trace[r][j].at

\* C7: in a dispatch no Middleware::call and no handler is invoked twice; the
\* first function invoked gets the State and the Request given to
\* Pipeline::call, and it is that of the first middleware added (the handler
\* in an empty pipeline); a finished dispatch whose middleware all delegate
\* has invoked every Middleware::call and the handler exactly once.
C7_ExactlyOnce ==
    \A r \in Req :
        /\ NoRepeat(r)
        /\ Len(trace[r]) <= 3 * N + 2
        /\ ChainEvents(r) # <<>> =>
              LET first == ChainEvents(r)[1]
              IN  /\ first.state = NewState(r)
                  /\ first.req = r
                  /\ <<first.ev, first.at>> = IF N = 0 THEN <<"handler", 0>> ELSE <<"before", 1>>
        /\ (Finished(r) /\ AllDelegate) =>
              /\ \A id \in 1..N : Called(r, "before", id)
              /\ Called(r, "handler", 0)

C7_Witness ==
    \E r \in Req :
        /\ N = 3
        /\ AllDelegate
        /\ Finished(r)
        /\ ~result[r].ok
        /\ NoRepeat(r)
        /\ \A id \in 1..N : Called(r, "before", id)
        /\ Called(r, "handler", 0)

(* C8 *)
\* The Middleware of dispatch r that have not finished: those still to be
\* called and those whose chain has not returned.
Instances(r) == {f[r][i] : i \in 1..Len(f[r])} \cup {stack[r][i] : i \in 1..Len(stack[r])}

\* C8: a dispatch whose construction succeeded has called new_middleware of
\* every NewMiddleware of the pipeline exactly once; every Middleware it runs
\* was created in this dispatch by the NewMiddleware of its position; and no
\* Middleware belongs to two dispatches.
C8_FreshInstances ==
    \A r \in Req :
        /\ Constructed(r) =>
              /\ Len(FactoryEvents(r)) = N
              /\ \A id \in 1..N : Called(r, "new_middleware", id)
        /\ \A m \in Instances(r) :
              /\ m.dispatch = r
              /\ m.id \in 1..N
              /\ appended[m.id] = [kind |-> m.kind, value |-> m.value, id |-> m.id]
        /\ pc[r] = "chain" =>
              /\ Len(stack[r]) + Len(f[r]) = N
              /\ \A i \in 1..Len(f[r]) : f[r][i].id = Len(stack[r]) + i
              /\ \A i \in 1..Len(stack[r]) : stack[r][i].id = Len(stack[r]) + 1 - i
        /\ \A r2 \in Req \ {r} : Instances(r) \cap Instances(r2) = {}

C8_Witness ==
    \E r1, r2 \in Req :
        /\ r1 # r2
        /\ N = 3
        /\ pc[r1] = "chain" /\ pc[r2] = "chain"
        /\ Len(stack[r1]) = 1 /\ Len(stack[r2]) = 2
        /\ Cardinality(Instances(r1) \cup Instances(r2)) = 2 * N

(* C9 *)
\* What a dispatch through the middleware ops yields for the State s when the
\* handler's future ends with outcome o.
RECURSIVE RunAlone(_, _, _)
RunAlone(ops, s, o) ==
    IF ops = <<>>
    THEN IF o = "error"
         THEN Err(s, [source |-> "handler", at |-> 0])
         ELSE Ok(s, [status |-> "Ok", body |-> s.number, via |-> <<>>])
    ELSE LET m == Head(ops)
             s2 == [number |-> ApplyOp(m, s.number)]
         IN  IF m.kind = "Halt"
             THEN Ok(s2, [status |-> "Halted", body |-> m.id, via |-> <<>>])
             ELSE LET res == RunAlone(Tail(ops), s2, o)
                  IN  IF m.kind = "Wrap" /\ res.ok
                      THEN [res EXCEPT !.resp.via = Append(@, m.id)]
                      ELSE res

\* C9: whatever the other dispatches have done, the State of a dispatch is
\* the fold, over its own seed, of the middleware it has called so far, and
\* the result of a finished dispatch is what the pipeline yields for its own
\* State alone.
C9_Isolation ==
    \A r \in Req :
        /\ state[r].number =
              FoldLeft(SubSeq(appended, 1, Len(SelectSeq(trace[r], LAMBDA e : e.ev = "before"))),
                       Seed(r))
        /\ request[r] = r
        /\ Finished(r) => \E o \in Outcomes : result[r] = RunAlone(appended, NewState(r), o)
        /\ (pc[r] = "done" /\ ~Constructed(r)) => result[r].state = NewState(r)

C9_Witness ==
    \E r1, r2 \in Req :
        /\ r1 # r2
        /\ N = 3
        /\ AllArithmetic
        /\ Finished(r1) /\ result[r1].ok
        /\ pc[r2] = "chain" /\ Len(stack[r2]) = 2
        /\ state[r2].number # result[r1].state.number
        /\ state[r2].number # Seed(r2)

(* C10 *)
FactoryIds(r) == [i \in 1..Len(FactoryEvents(r)) |-> FactoryEvents(r)[i].at]

\* C10 as claimed: new_middleware is called in the order the NewMiddleware
\* were added, the first added first.
C10_AddOrder ==
    \A r \in Req : Constructed(r) => FactoryIds(r) = [i \in 1..N |-> i]

\* C10: new_middleware is called in the reverse of the order the
\* NewMiddleware were added, the last added first: the calls made so far are
\* a prefix of n, n-1, ..., 1 and a dispatch whose construction succeeded has
\* made all of them.
C10_ReverseAddOrder ==
    \A r \in Req :
        /\ IsPrefix(FactoryIds(r), [i \in 1..N |-> N + 1 - i])
        /\ Constructed(r) => FactoryIds(r) = [i \in 1..N |-> N + 1 - i]

C10_Witness ==
    \E r \in Req :
        /\ N = 3
        /\ Constructed(r)
        /\ FactoryIds(r) = <<3, 2, 1>>

(* C11 *)
\* The NewMiddleware that fails first in a dispatch: new_middleware is called
\* from the last one added to the first, so it is the last failing one added.
FirstToFail == CHOOSE k \in 1..N : appended[k].kind = "Broken" /\ \A j \in (k + 1)..N : appended[j].kind # "Broken"

\* C11: in a dispatch whose Handler was created through a pipeline with
\* failing NewMiddleware, new_middleware is called for the NewMiddleware up to
\* the first that fails and for no other, each once; none is called after the
\* failure; and the error of the dispatch is that of the first one that
\* failed, also when others would fail.
C11_FailFast ==
    \A r \in Req :
        /\ NoRepeat(r)
        /\ (HasBroken /\ pc[r] # "idle" /\ handler[r] # NoHandler) =>
              LET k == FirstToFail
              IN  /\ FactoryIds(r) = [i \in 1..(N + 1 - k) |-> N + 1 - i]
                  /\ trace[r] = <<Event("new_handler", 0, NewState(r), r)>> \o FactoryEvents(r)
                  /\ result[r].err = [source |-> "new_middleware", at |-> k]
                  /\ \A i \in 1..(Len(FactoryIds(r)) - 1) : appended[FactoryIds(r)[i]].kind # "Broken"

C11_Witness ==
    \E r \in Req :
        /\ N = 3
        /\ appended[1].kind = "Broken"
        /\ appended[2].kind = "Broken"
        /\ appended[3].kind = "Wrap"
        /\ pc[r] = "done"
        /\ FactoryIds(r) = <<3, 2>>
        /\ result[r].err = [source |-> "new_middleware", at |-> 2]

(* C12 *)
\* The stage the State of dispatch r is with: 0 the caller, i the i-th
\* middleware added, N + 1 the handler. In the chain it is the stage about to
\* run; while the futures resolve it is the stage the result comes back to.
Owner(r) ==
    CASE pc[r] = "chain" -> IF f[r] = <<>> THEN N + 1 ELSE Head(f[r]).id
      [] pc[r] = "unwind" -> IF stack[r] = <<>> THEN 0 ELSE Head(stack[r]).id
      [] OTHER -> 0

Befores(r) == Len(SelectSeq(trace[r], LAMBDA e : e.ev = "before"))
Afters(r) == Len(SelectSeq(trace[r], LAMBDA e : e.ev = "after"))

\* The owner agrees with the calls made: every Middleware::call entered and
\* not yet returned from encloses it, and they are nested in add order.
OwnerAgrees(r) ==
    /\ Owner(r) \in 0..(N + 1)
    /\ pc[r] = "chain" =>
          /\ Owner(r) = Befores(r) + 1
          /\ Afters(r) = 0
          /\ \A i \in 1..Len(stack[r]) : stack[r][i].id = Owner(r) - i
    /\ pc[r] = "unwind" =>
          /\ Owner(r) = Befores(r) - Afters(r)
          /\ \A i \in 1..Len(stack[r]) : stack[r][i].id = Owner(r) + 1 - i
    /\ pc[r] = "done" => (Constructed(r) => Befores(r) = Afters(r))

\* One step moves the State of a dispatch by at most one stage: forward when
\* a middleware invokes its chain, back when a future resolves.
OwnerMoves(r) ==
    /\ Owner(r)' \in {Owner(r) - 1, Owner(r), Owner(r) + 1}
    /\ (pc[r] = "chain" /\ pc'[r] = "chain") => Owner(r)' \in {Owner(r), Owner(r) + 1}
    /\ (pc[r] = "unwind") => Owner(r)' \in {Owner(r), Owner(r) - 1}
    /\ (pc[r] = "idle" /\ pc'[r] = "chain") => Owner(r)' = 1

\* C12: at every moment of a dispatch its State is with exactly one stage
\* among the caller, M1..Mn and the handler, the middleware that have been
\* entered and have not returned being exactly those outside it; each step
\* moves it forward one stage (a delegation) or back one stage (a return, a
\* short-circuit), never further.
C12_SingleOwner ==
    /\ [](\A r \in Req : OwnerAgrees(r))
    /\ [][\A r \in Req : OwnerMoves(r)]_vars

C12_Witness ==
    \E r \in Req :
        /\ N = 3
        /\ pc[r] = "unwind"
        /\ Owner(r) = 2
        /\ Befores(r) = 3
        /\ Afters(r) = 1

(* C13 *)
\* What tests::handler, or a handler whose future fails, yields for State s.
HandlerResults(s) ==
    {Ok(s, [status |-> "Ok", body |-> s.number, via |-> <<>>]),
     Err(s, [source |-> "handler", at |-> 0])}

PassedThrough(r) ==
    /\ \A i \in 1..Len(trace[r]) : trace[r][i].req = r
    /\ (AllArithmetic /\ (pc[r] = "unwind" \/ Finished(r))) =>
          /\ Len(HandlerEvents(r)) = 1
          /\ result[r] \in HandlerResults(HandlerEvents(r)[1].state)

Untouched(r) ==
    /\ (AllArithmetic /\ pc[r] = "unwind") => result'[r] = result[r]
    /\ (pc[r] = "unwind" /\ pc'[r] = "done") => result'[r] = result[r]
    /\ pc[r] = "done" => result'[r] = result[r]

\* C13: every stage of a dispatch gets the Request given to Pipeline::call;
\* through a pipeline of middleware that return the result of their chain as
\* it is, the result of the dispatch is the handler's, Response or error, for
\* the State the handler was given; no step after the handler changes it, and
\* the resolution of the dispatch changes no result of any pipeline.
C13_Transparent ==
    /\ [](\A r \in Req : PassedThrough(r))
    /\ [][\A r \in Req : Untouched(r)]_vars

C13_Witness ==
    \E r \in Req :
        /\ N = 3
        /\ AllArithmetic
        /\ Finished(r)
        /\ result[r] = Err([number |-> Seed(r) + 3], [source |-> "handler", at |-> 0])

(* C14 *)
\* Two dispatches through the Pipeline agree: the same new_middleware calls
\* when both Handlers were created, and, when both have finished the same
\* way, the same calls in the same order and the same Response or error; the
\* same result altogether when the first middleware sets the Number, so that
\* the State no longer depends on the seed of the request.
SameDispatch(r1, r2) ==
    /\ (pc[r1] # "idle" /\ pc[r2] # "idle" /\ handler[r1] # NoHandler /\ handler[r2] # NoHandler) =>
          FactoryIds(r1) = FactoryIds(r2)
    /\ (pc[r1] = "done" /\ pc[r2] = "done" /\ handler[r1] = handler[r2]
            /\ result[r1].ok = result[r2].ok) =>
          /\ Tags(trace[r1]) = Tags(trace[r2])
          /\ result[r1].resp.status = result[r2].resp.status
          /\ result[r1].resp.via = result[r2].resp.via
          /\ result[r1].err = result[r2].err
          /\ (Finished(r1) /\ N > 0 /\ appended[1].kind = "Number") => result[r1] = result[r2]

\* C14: once built, the list of NewMiddleware of the Pipeline never changes,
\* whatever a dispatch does (success, short-circuit, failed construction), and
\* it is the list that was added; so any two dispatches through it, in any
\* order, make the same calls in the same order and, for the same inputs,
\* yield the same result.
C14_DefinitionUnchanged ==
    /\ [][built => (built' /\ t' = t /\ appended' = appended)]_vars
    /\ [](\A i \in 1..Len(t) : Len(t) = N /\ t[i] = appended[N + 1 - i])
    /\ [](\A r1, r2 \in Req : SameDispatch(r1, r2))

C14_Witness ==
    \E r1, r2 \in Req :
        /\ r1 # r2
        /\ N = 3
        /\ appended[1].kind = "Number"
        /\ Finished(r1) /\ Finished(r2)
        /\ result[r1].ok
        /\ result[r1] = result[r2]
        /\ Tags(trace[r1]) = Tags(trace[r2])

(* C15 *)
\* The number of steps dispatch r has left at most before it finishes.
Remaining(r) ==
    CASE pc[r] = "idle" -> 2 * Len(t) + 3
      [] pc[r] = "chain" -> 2 * Len(f[r]) + Len(stack[r]) + 2
      [] pc[r] = "unwind" -> Len(stack[r]) + 1
      [] pc[r] = "done" -> 0

\* Dispatch r took a step.
Moved(r) == <<pc[r], f[r], stack[r]>>' # <<pc[r], f[r], stack[r]>>

\* C15: while a dispatch is suspended inside a Middleware or the Handler,
\* every other dispatch through the Pipeline that has not finished can take
\* its next step, whether that is creating its instances or running a stage;
\* each step it takes brings it nearer to its end, and leaves the suspended
\* dispatch where it is.
C15_NotBlocked ==
    /\ [](\A r2 \in Req :
            (pc[r2] # "done" /\ \E r1 \in Req \ {r2} : pc[r1] \in {"chain", "unwind"})
                => ENABLED Dispatch(r2))
    /\ [][\A r1, r2 \in Req :
            (r1 # r2 /\ pc[r1] \in {"chain", "unwind"} /\ Moved(r2))
                => /\ Remaining(r2)' < Remaining(r2)
                   /\ <<pc[r1], f[r1], stack[r1], result[r1], trace[r1]>>'
                        = <<pc[r1], f[r1], stack[r1], result[r1], trace[r1]>>]_vars

C15_Witness ==
    \E r1, r2 \in Req :
        /\ r1 # r2
        /\ N = 3
        /\ AllDelegate
        /\ pc[r1] = "chain"
        /\ Len(stack[r1]) = 2
        /\ Finished(r2)
        /\ Len(trace[r2]) = 3 * N + 2

(* C16 *)
\* new_middleware of a failing NewMiddleware was called in dispatch r.
FactoryFailed(r) ==
    \E i \in 1..Len(trace[r]) :
        trace[r][i].ev = "new_middleware" /\ appended[trace[r][i].at].kind = "Broken"

\* C16: in a dispatch where a new_middleware call failed, the Handler had
\* been created before any new_middleware call, and it is not invoked: the
\* dispatch has ended with the failure, no handler call was made and none can
\* be made any more. A dispatch whose Handler was invoked had every
\* new_middleware call succeed.
C16_HandlerNotInvoked ==
    \A r \in Req :
        /\ FactoryFailed(r) =>
              /\ handler[r] = new_handler("handler").handler
              /\ trace[r][1].ev = "new_handler"
              /\ HandlerEvents(r) = <<>>
              /\ pc[r] = "done"
              /\ ~result[r].ok
              /\ ~ENABLED Step(r)
        /\ HandlerEvents(r) # <<>> =>
              /\ ~FactoryFailed(r)
              /\ Len(FactoryEvents(r)) = N

C16_Witness ==
    \E r \in Req :
        /\ N = 3
        /\ appended[1].kind = "Broken"
        /\ appended[2].kind = "Wrap"
        /\ appended[3].kind = "Addition"
        /\ FactoryIds(r) = <<3, 2, 1>>
        /\ handler[r] # NoHandler
        /\ pc[r] = "done"
        /\ HandlerEvents(r) = <<>>

(* C17 *)
\* C17: the function built for a dispatch nests exactly N Middleware around
\* the Handler, so a dispatch makes at most 3 * N + 2 calls; a dispatch that
\* could not create its Handler or a Middleware has ended at once; a dispatch
\* that has ended has a result; and, the invoked Middleware and the Handler
\* completing, every dispatch that was started ends: from some point on no
\* dispatch is inside its chain any more.
C17_Terminates ==
    /\ [](\A r \in Req :
            /\ pc[r] = "chain" => Len(f[r]) + Len(stack[r]) = N
            /\ pc[r] = "unwind" => (f[r] = <<>> /\ Len(stack[r]) <= N)
            /\ Len(trace[r]) <= 3 * N + 2
            /\ (pc[r] # "idle" /\ ~Constructed(r)) =>
                  (pc[r] = "done" /\ result[r].err.source \in {"new_handler", "new_middleware"})
            /\ pc[r] = "done" => result[r] # Pending)
    /\ <>[](\A r \in Req : pc[r] \notin {"chain", "unwind"})

C17_Witness ==
    \E r \in Req :
        /\ appended = TestPipeline
        /\ Finished(r)
        /\ Len(trace[r]) = 3 * N + 2
        /\ result[r] # Pending

(* C18 *)
\* The Middleware new_pipeline_instance makes of the list for dispatch r.
InstanceOf(r) == new_pipeline_instance(t, r, NewState(r), r)

\* C18: the list of the builder, and of the Pipeline built from it, holds
\* the NewMiddleware added, each once, the last added at the head and the
\* first added innermost; when none of them fails, new_pipeline_instance
\* returns one Middleware per NewMiddleware, the one at each position made by
\* the NewMiddleware at that position of the list, and the function a
\* dispatch starts with is built from just those.
C18_ConsListRefinesSequence ==
    /\ Len(t) = N
    /\ \A i \in 1..N : t[i] = appended[N + 1 - i]
    /\ \A i, j \in 1..N : t[i] = t[j] => i = j
    /\ N > 0 => (Head(t) = appended[N] /\ Tail(t) = [i \in 1..(N - 1) |-> appended[N - i]])
    /\ \A r \in Req :
          LET i == InstanceOf(r)
          IN  /\ ~HasBroken =>
                    /\ i.ok
                    /\ Len(i.p) = N
                    /\ \A j \in 1..N :
                          /\ i.p[j] = new_middleware(t[j], r).m
                          /\ i.p[j].id = N + 1 - j
              /\ (pc[r] = "chain" /\ stack[r] = <<>>) => f[r] = instance_call(i.p)

C18_Witness ==
    \E r \in Req :
        /\ built
        /\ N = 3
        /\ appended[1].kind = "Addition"
        /\ appended[2].kind = "Wrap"
        /\ appended[3].kind = "Halt"
        /\ t = <<appended[3], appended[2], appended[1]>>
        /\ pc[r] = "chain"
        /\ stack[r] = <<>>
        /\ InstanceOf(r).p[1].kind = "Halt"
        /\ InstanceOf(r).p[3].kind = "Addition"

====
